---- MODULE Spec2Model ----
(***************************************************************************)
(* Model of sdv/modeler.py: the Modeler class and its recursive            *)
(* Conditional Parameter Aggregation (cpa), the extension builder          *)
(* (_get_extension) and the orchestrator (model_database).                 *)
(*                                                                         *)
(* A pandas DataFrame is a record                                          *)
(*    [name  |-> the index's name ("" when it has none),                    *)
(*     index |-> the sequence of row labels,                                *)
(*     cols  |-> the sequence of column names,                              *)
(*     rows  |-> the sequence of rows, each a function column -> value]     *)
(* Values are naturals; NaN is the missing value.  Names are strings, and   *)
(* a name is built by concatenation exactly as the code builds it.  The    *)
(* Python value None of a name is the empty string (both are falsy).       *)
(***************************************************************************)
EXTENDS Integers, Sequences, FiniteSets, TLC

VARIABLES
    metadata,      \* self.metadata: the schema and the tables it can load
    model_kwargs,  \* self.model / self.model_kwargs: the model configuration
    tables,        \* the tables argument of model_database (<<>> when absent)
    models,        \* self.models: table name -> fitted model
    table_sizes,   \* self.table_sizes: table name -> row count
    stack,         \* the active cpa calls, innermost last
    pc,            \* model_database's position: "loop", "done" or "raised"
    i,             \* model_database's position in metadata.get_tables()
    instances,     \* number of model instances constructed so far
    log            \* history of the run: what was done, in order

vars == <<metadata, model_kwargs, tables, models, table_sizes, stack, pc, i,
          instances, log>>

-----------------------------------------------------------------------------
(* The size of the tables explored, and the special values.               *)

\* No table has more rows than this.
MaxRows == 3

\* The values a foreign key takes.
KeySet == {1, 2}

\* The missing value of a cell; every other value is a natural.
NaN == -1

\* Python's None, for a name.
None == ""

-----------------------------------------------------------------------------
(* Sequences.                                                              *)

Range(s) == {s[j] : j \in DOMAIN s}

Last(s) == s[Len(s)]

Front(s) == SubSeq(s, 1, Len(s) - 1)

SeqsUpTo(S, n) == UNION {[1..m -> S] : m \in 0..n}

RECURSIVE Flatten(_)
Flatten(ss) == IF ss = <<>> THEN <<>> ELSE Head(ss) \o Flatten(Tail(ss))

\* pandas.Series.unique: the distinct values, in order of first occurrence.
RECURSIVE Unique(_)
Unique(s) ==
    IF s = <<>> THEN <<>>
    ELSE LET u == Unique(Front(s))
         IN  IF Last(s) \in Range(u) THEN u ELSE Append(u, Last(s))

-----------------------------------------------------------------------------
(* DataFrames.                                                             *)

DataFrame(name, index, cols, rows) ==
    [name |-> name, index |-> index, cols |-> cols, rows |-> rows]

NoDF == DataFrame(None, <<>>, <<>>, <<>>)

NRows(df) == Len(df.index)

\* df[col]: the column's values, by position.
Column(df, col) == [j \in 1..NRows(df) |-> df.rows[j][col]]

\* del df[col]
DelColumn(df, col) ==
    LET keep == SelectSeq(df.cols, LAMBDA c : c # col)
    IN  DataFrame(df.name, df.index, keep,
                  [j \in 1..NRows(df) |-> [c \in Range(keep) |-> df.rows[j][c]]])

\* df.set_index(col): the column becomes the index and leaves the columns.
SetIndex(df, col) ==
    LET d == DelColumn(df, col)
    IN  DataFrame(col, Column(df, col), d.cols, d.rows)

\* df.index = series: the labels are replaced by position; the index takes
\* the series' name.
AssignIndex(df, name, labels) == DataFrame(name, labels, df.cols, df.rows)

\* Variant of Loc: df.loc[label] read as one row, the first carrying the
\* label.
LocFirst(df, label) ==
    LET hit == SelectSeq([j \in 1..NRows(df) |-> j],
                         LAMBDA j : df.index[j] = label)
    IN  DataFrame(df.name, <<df.index[hit[1]]>>, df.cols, <<df.rows[hit[1]]>>)

\* df.loc[[label]]: every row carrying the label, in the table's order.
Loc(df, label) ==
    LET hit == SelectSeq([j \in 1..NRows(df) |-> j],
                         LAMBDA j : df.index[j] = label)
    IN  DataFrame(df.name, [k \in 1..Len(hit) |-> df.index[hit[k]]], df.cols,
                  [k \in 1..Len(hit) |-> df.rows[hit[k]]])

\* df.reset_index(): the index becomes the first column, under its name, and
\* the rows are labelled 0..n-1 again.
ResetIndex(df) ==
    LET cols == <<df.name>> \o df.cols
    IN  DataFrame(None, [j \in 1..NRows(df) |-> j - 1], cols,
                  [j \in 1..NRows(df) |->
                      [c \in Range(cols) |->
                          IF c = df.name THEN df.index[j] ELSE df.rows[j][c]]])

\* df[col] = series: the series is aligned on the row labels; a row whose
\* label the series lacks gets NaN.
AssignColumn(df, col, series) ==
    LET cols == IF col \in Range(df.cols) THEN df.cols ELSE Append(df.cols, col)
        At(label) ==
            IF \E j \in 1..NRows(series) : series.index[j] = label
            THEN series.rows[CHOOSE j \in 1..NRows(series) :
                                 series.index[j] = label][col]
            ELSE NaN
    IN  DataFrame(df.name, df.index, cols,
                  [j \in 1..NRows(df) |->
                      [c \in Range(cols) |->
                          IF c = col THEN At(df.index[j]) ELSE df.rows[j][c]]])

\* Variant of FillNa: df.fillna(value), every column's missing cells.
FillNaAll(df, col, value) ==
    DataFrame(df.name, df.index, df.cols,
              [j \in 1..NRows(df) |->
                  [c \in Range(df.cols) |->
                      IF df.rows[j][c] = NaN THEN value ELSE df.rows[j][c]]])

\* df[col].fillna(value, inplace=True): only that column's missing cells.
FillNa(df, col, value) ==
    DataFrame(df.name, df.index, df.cols,
              [j \in 1..NRows(df) |->
                  [c \in Range(df.cols) |->
                      IF c = col /\ df.rows[j][c] = NaN THEN value
                      ELSE df.rows[j][c]]])

\* The names merge gives the columns: a name both sides carry gets the
\* suffix _x on the left and _y on the right.
LeftName(left, right, c) ==
    IF c \in Range(right.cols) THEN c \o "_x" ELSE c

RightName(left, right, c) ==
    IF c \in Range(left.cols) THEN c \o "_y" ELSE c

\* left.merge(right, how='left', left_index=True, right_index=True): every
\* left row, once per right row with the same label, or once with the right
\* columns missing when there is none.
Merge(left, right) ==
    LET lcols == [k \in 1..Len(left.cols) |-> LeftName(left, right, left.cols[k])]
        rcols == [k \in 1..Len(right.cols) |-> RightName(left, right, right.cols[k])]
        cols  == lcols \o rcols
        Row(j, m) ==
            [c \in Range(cols) |->
                IF \E k \in 1..Len(lcols) : lcols[k] = c
                THEN left.rows[j][left.cols[CHOOSE k \in 1..Len(lcols) : lcols[k] = c]]
                ELSE IF m = 0 THEN NaN
                ELSE right.rows[m][right.cols[CHOOSE k \in 1..Len(rcols) : rcols[k] = c]]]
        Match(j) == SelectSeq([m \in 1..NRows(right) |-> m],
                              LAMBDA m : right.index[m] = left.index[j])
        Joined(j) ==
            IF Match(j) = <<>> THEN <<[label |-> left.index[j], row |-> Row(j, 0)]>>
            ELSE [k \in 1..Len(Match(j)) |->
                     [label |-> left.index[j], row |-> Row(j, Match(j)[k])]]
        all == Flatten([j \in 1..NRows(left) |-> Joined(j)])
    IN  DataFrame(left.name, [k \in 1..Len(all) |-> all[k].label], cols,
                  [k \in 1..Len(all) |-> all[k].row])

-----------------------------------------------------------------------------
(* The metadata collaborator (sdv.metadata.Metadata), as the Modeler uses  *)
(* it.  A schema is a forest: a table has at most one parent, and only a   *)
(* table with a primary key has children.                                  *)

Schema(names, parent, children, primary) ==
    [tables |-> names, parent |-> parent, children |-> children,
     primary_key |-> primary]

\* customers -> orders -> items
Chain ==
    Schema(<<"customers", "orders", "items">>,
           [t \in {"customers", "orders", "items"} |->
               CASE t = "customers" -> None
                 [] t = "orders" -> "customers"
                 [] t = "items" -> "orders"],
           [t \in {"customers", "orders", "items"} |->
               CASE t = "customers" -> <<"orders">>
                 [] t = "orders" -> <<"items">>
                 [] t = "items" -> <<>>],
           [t \in {"customers", "orders", "items"} |-> "id"])

\* p -> a, b; b has no primary key; r is a second root without one.
Fan ==
    Schema(<<"a", "p", "b", "r">>,
           [t \in {"a", "p", "b", "r"} |->
               IF t \in {"a", "b"} THEN "p" ELSE None],
           [t \in {"a", "p", "b", "r"} |->
               IF t = "p" THEN <<"a", "b">> ELSE <<>>],
           [t \in {"a", "p", "b", "r"} |->
               IF t \in {"a", "p"} THEN "id" ELSE None])

\* p -> a, a__a: a table name that holds the separator of the column names.
Nested ==
    Schema(<<"p", "a", "a__a">>,
           [t \in {"p", "a", "a__a"} |-> IF t = "p" THEN None ELSE "p"],
           [t \in {"p", "a", "a__a"} |->
               IF t = "p" THEN <<"a", "a__a">> ELSE <<>>],
           [t \in {"p", "a", "a__a"} |-> "id"])

get_tables == metadata.tables

get_parents(table_name) ==
    IF metadata.parent[table_name] = None THEN {}
    ELSE {metadata.parent[table_name]}

get_children(table_name) == metadata.children[table_name]

get_primary_key(table_name) == metadata.primary_key[table_name]

get_foreign_key(parent, child) == parent \o "_id"

load_table(table_name) == metadata.data[table_name]

\* The columns a raw table has: its primary key, the foreign key to its
\* parent, and one data column.
RawColumns(schema, t) ==
    (IF schema.primary_key[t] = None THEN <<>> ELSE <<schema.primary_key[t]>>)
    \o (IF schema.parent[t] = None THEN <<>>
        ELSE <<schema.parent[t] \o "_id">>)
    \o <<"x">>

\* A raw table of Len(keys) rows, labelled 0..n-1: the primary keys are
\* n..1, the foreign keys are the given ones, the data column is the row
\* number.
RawTable(schema, t, keys) ==
    LET n == Len(keys)
        cols == RawColumns(schema, t)
    IN  DataFrame(None, [j \in 1..n |-> j - 1], cols,
                  [j \in 1..n |->
                      [c \in Range(cols) |->
                          IF c = schema.primary_key[t] THEN n + 1 - j
                          ELSE IF c = "x" THEN j
                          ELSE keys[j]]])

\* metadata.transform: the identifier columns are dropped, the data columns
\* are encoded as numbers; rows and labels are kept.
transform(table_name, table) ==
    LET ids == {get_primary_key(table_name)}
                 \cup {get_foreign_key(p, table_name) : p \in get_parents(table_name)}
        keep == SelectSeq(table.cols, LAMBDA c : c \notin ids)
    IN  DataFrame(table.name, table.index, keep,
                  [j \in 1..NRows(table) |->
                      [c \in Range(keep) |-> table.rows[j][c]]])

-----------------------------------------------------------------------------
(* The model collaborator (self.model, by default GaussianCopula).         *)

\* self.model(**self.model_kwargs): a new, unfitted instance.
NewModel(inst) == [inst |-> inst, params |-> model_kwargs.params, data |-> NoDF]

\* model.fit(table) fails on an empty table.
FitFails(table) == NRows(table) = 0

\* model.fit(table), when it succeeds: the instance has learned the table.
Fit(model, table) == [model EXCEPT !.data = table]

\* model.get_parameters(): a flat mapping, as the sequence of its keys and
\* the values under them.  The key set is fixed by the configuration.
get_parameters(model) ==
    [keys |-> model.params,
     val  |-> [p \in Range(model.params) |->
                  NRows(model.data) + Len(model.data.cols)]]

-----------------------------------------------------------------------------
(* History.                                                                *)

Event(ev, table, other, key, inst, df) ==
    [ev |-> ev, table |-> table, other |-> other, key |-> key, inst |-> inst,
     df |-> df]

-----------------------------------------------------------------------------
(* Modeler._get_extension                                                  *)

\* '__' + child_name + '__' + row.index (line 73)
ColumnName(child_name, key) == "__" \o child_name \o "__" \o key

\* Variant of ForeignKeyValues: the column itself, without unique().
ForeignKeyValuesAll(child_table, foreign_key) ==
    Column(child_table, foreign_key)

\* child_table[foreign_key].unique() (line 56)
ForeignKeyValues(child_table, foreign_key) ==
    Unique(Column(child_table, foreign_key))

\* Variant of ChildRows: the child's primary key column is kept.
ChildRowsKeepPrimary(child_name, child_table, foreign_key, foreign_key_value) ==
    Loc(SetIndex(child_table, foreign_key), foreign_key_value)

\* child_table.loc[[foreign_key_value]] of the table indexed by the foreign
\* key, without the child's primary key column (lines 57-63)
ChildRows(child_name, child_table, foreign_key, foreign_key_value) ==
    LET child_rows == Loc(SetIndex(child_table, foreign_key), foreign_key_value)
        child_primary == get_primary_key(child_name)
    IN  IF child_primary \in Range(child_rows.cols)
        THEN DelColumn(child_rows, child_primary)
        ELSE child_rows

\* The instance the n-th sub-model of a call gets, when `first` instances
\* exist before the call (line 67).
SubModelInstance(first, n) == first + n - 1

\* One extension row: the parameters of a new model fitted to the child
\* rows, plus child_rows, under the namespaced names (lines 65-73).
ExtensionRow(child_name, child_rows, inst) ==
    LET num_child_rows == NRows(child_rows)
        model == Fit(NewModel(inst), child_rows)
        params == get_parameters(model)
        keys == IF "child_rows" \in Range(params.keys) THEN params.keys
                ELSE Append(params.keys, "child_rows")
        row == [key \in Range(keys) |->
                   IF key = "child_rows" THEN num_child_rows
                   ELSE params.val[key]]
        names == [n \in 1..Len(keys) |-> ColumnName(child_name, keys[n])]
    IN  [keys |-> names,
         val  |-> [c \in Range(names) |->
                      row[keys[CHOOSE n \in 1..Len(keys) : names[n] = c]]]]

\* pd.DataFrame(extension_rows, index=foreign_key_values) (line 76): the
\* columns are the rows' keys in order of first appearance; a key a row
\* lacks is a missing cell.
FrameOfRows(extension_rows, labels) ==
    LET cols == Unique(Flatten([n \in 1..Len(extension_rows) |->
                                   extension_rows[n].keys]))
    IN  DataFrame(None, labels, cols,
                  [n \in 1..Len(extension_rows) |->
                      [c \in Range(cols) |->
                          IF c \in Range(extension_rows[n].keys)
                          THEN extension_rows[n].val[c] ELSE NaN]])

_get_extension(child_name, child_table, foreign_key, first) ==
    LET foreign_key_values == ForeignKeyValues(child_table, foreign_key)
        extension_rows ==
            [n \in 1..Len(foreign_key_values) |->
                ExtensionRow(child_name,
                             ChildRows(child_name, child_table, foreign_key,
                                       foreign_key_values[n]),
                             SubModelInstance(first, n))]
    IN  FrameOfRows(extension_rows, foreign_key_values)

\* The sub-model fits of one _get_extension call, as history.
SubFits(parent, child_name, child_table, foreign_key, first) ==
    LET foreign_key_values == ForeignKeyValues(child_table, foreign_key)
    IN  [n \in 1..Len(foreign_key_values) |->
            Event("subfit", child_name, parent, foreign_key_values[n],
                  SubModelInstance(first, n),
                  ChildRows(child_name, child_table, foreign_key,
                            foreign_key_values[n]))]

-----------------------------------------------------------------------------
(* Modeler.cpa.  One call is a frame of the stack:                         *)
(*   table_name, foreign_key : the arguments                               *)
(*   table, extended         : the locals                                  *)
(*   k                       : the number of children already merged       *)
(*   ret                     : the table the last child call returned      *)
(*   at                      : "children" (line 108), "extend" (line 111)  *)
(*                             or "fit" (line 116)                         *)

\* '__' + child_name + '__child_rows' (line 114)
ChildRowsColumn(child_name) == "__" \o child_name \o "__child_rows"

\* Lines 96-99: the table comes from the argument when it is not empty.
ResolveTable(table_name) ==
    IF tables # <<>> THEN tables[table_name] ELSE load_table(table_name)

\* Lines 94-107: the state of a call when it reaches its loop over the
\* children.
EnterCpa(table_name, foreign_key) ==
    LET table == ResolveTable(table_name)
        extended == transform(table_name, table)
        primary_key == get_primary_key(table_name)
    IN  [table_name |-> table_name, foreign_key |-> foreign_key,
         table |-> table,
         extended |-> IF primary_key # None
                      THEN AssignIndex(extended, primary_key,
                                       Column(table, primary_key))
                      ELSE extended,
         k |-> 0, ret |-> NoDF,
         at |-> IF primary_key # None THEN "children" ELSE "fit"]

\* Variant of RecordSize: the size of the table the metadata loads.
RecordSizeLoaded(table_name) ==
    (table_name :> NRows(load_table(table_name))) @@ table_sizes

\* Line 101
RecordSize(table_name) ==
    (table_name :> NRows(ResolveTable(table_name))) @@ table_sizes

\* Lines 112-114: the extension is merged in and the missing child counts
\* become 0.
Extend(extended, child_name, extension) ==
    FillNa(Merge(extended, extension), ChildRowsColumn(child_name), 0)

\* Lines 120-126: what the call returns.
Returned(frame) ==
    LET primary_key == get_primary_key(frame.table_name)
        extended == IF primary_key # None THEN ResetIndex(frame.extended)
                    ELSE frame.extended
    IN  IF frame.foreign_key # None
        THEN AssignColumn(extended, frame.foreign_key, frame.table)
        ELSE extended

Top == Last(stack)

NextChild(frame) == get_children(frame.table_name)[frame.k + 1]

\* Variant of AtFit: the fit does not wait for the loop over the children.
AtFitEarly(frame) == frame.at \in {"fit", "children"}

\* The call has no child left to process (line 108 falls through, or the
\* table has no primary key).
AtFit(frame) ==
    \/ frame.at = "fit"
    \/ frame.at = "children" /\ frame.k = Len(get_children(frame.table_name))

\* Variant of Raise: model_database catches the exception and goes on with
\* the next table.
RaiseCaught(table_name, done) ==
    /\ stack' = <<>>
    /\ i' = i + 1
    /\ log' = log \o done \o <<Event("raise", table_name, None, 0, 0, NoDF)>>
    /\ UNCHANGED <<metadata, model_kwargs, tables, models, table_sizes, pc>>

\* An exception in the call for table_name, after the events `done`: no
\* call catches it, so it leaves every active call and model_database.
Raise(table_name, done) ==
    /\ stack' = <<>>
    /\ pc' = "raised"
    /\ log' = log \o done \o <<Event("raise", table_name, None, 0, 0, NoDF)>>
    /\ UNCHANGED <<metadata, model_kwargs, tables, models, table_sizes, i>>

\* Line 110: the call for the next child starts.
CpaRecurse ==
    /\ stack # <<>>
    /\ Top.at = "children"
    /\ Top.k < Len(get_children(Top.table_name))
    /\ LET child_name == NextChild(Top)
           child_key == get_foreign_key(Top.table_name, child_name)
       IN  /\ stack' = Append(stack, EnterCpa(child_name, child_key))
           /\ table_sizes' = RecordSize(child_name)
           /\ log' = log \o <<Event("call", child_name, Top.table_name, 0, 0, NoDF),
                             Event("size", child_name, None,
                                   NRows(ResolveTable(child_name)), 0, NoDF)>>
    /\ UNCHANGED <<metadata, model_kwargs, tables, models, pc, i, instances>>

\* Lines 111-114, every sub-model fitting: the child's extension is built
\* and merged.  Line 114 raises KeyError when the merged table has no
\* column of that name.
CpaExtend ==
    /\ stack # <<>>
    /\ Top.at = "extend"
    /\ LET child_name == NextChild(Top)
           child_key == get_foreign_key(Top.table_name, child_name)
           extension == _get_extension(child_name, Top.ret, child_key, instances)
           fits == SubFits(Top.table_name, child_name, Top.ret, child_key, instances)
       IN  /\ \A n \in 1..Len(fits) : ~FitFails(fits[n].df)
           /\ instances' = instances + Len(fits)
           /\ IF ChildRowsColumn(child_name)
                    \in Range(Merge(Top.extended, extension).cols)
              THEN /\ stack' = [stack EXCEPT ![Len(stack)] =
                                   [@ EXCEPT !.extended = Extend(@, child_name, extension),
                                             !.k = @ + 1,
                                             !.ret = NoDF,
                                             !.at = "children"]]
                   /\ pc' = pc
                   /\ log' = log \o fits \o
                             <<Event("extend", Top.table_name, child_name, 0, 0, extension)>>
                   /\ UNCHANGED <<metadata, model_kwargs, tables, models,
                                  table_sizes, i>>
              ELSE Raise(Top.table_name, fits)

\* Line 68 raises for the n-th sub-model: the earlier ones were fitted.
CpaExtendRaise ==
    /\ stack # <<>>
    /\ Top.at = "extend"
    /\ LET child_name == NextChild(Top)
           child_key == get_foreign_key(Top.table_name, child_name)
           fits == SubFits(Top.table_name, child_name, Top.ret, child_key, instances)
       IN  \E n \in 1..Len(fits) :
              /\ \A m \in 1..(n - 1) : ~FitFails(fits[m].df)
              /\ instances' = instances + n
              /\ Raise(Top.table_name, SubSeq(fits, 1, n - 1))

\* Lines 116-126: the table's own model is fitted and stored, and the call
\* returns to its caller.
CpaFit ==
    /\ stack # <<>>
    /\ AtFit(Top)
    /\ ~FitFails(Top.extended)
    /\ instances' = instances + 1
    /\ models' = (Top.table_name :> Fit(NewModel(instances), Top.extended)) @@ models
    /\ log' = log \o <<Event("fit", Top.table_name, None, 0, instances, Top.extended),
                      Event("return", Top.table_name, None, 0, 0, Returned(Top))>>
    /\ IF Len(stack) = 1
       THEN /\ stack' = <<>>
            /\ i' = i + 1
       ELSE /\ stack' = [Front(stack) EXCEPT ![Len(stack) - 1] =
                            [@ EXCEPT !.ret = Returned(Top), !.at = "extend"]]
            /\ i' = i
    /\ UNCHANGED <<metadata, model_kwargs, tables, table_sizes, pc>>

\* Line 117 raises.
CpaFitRaise ==
    /\ stack # <<>>
    /\ AtFit(Top)
    /\ instances' = instances + 1
    /\ Raise(Top.table_name, <<>>)

-----------------------------------------------------------------------------
(* Modeler.model_database                                                  *)

\* Variant of IsRoot: every table counts as a root.
IsRootAlways(table_name) == TRUE

\* Line 138: not self.metadata.get_parents(table_name)
IsRoot(table_name) == get_parents(table_name) = {}

\* Lines 137-139, a table without parents: cpa is called on it.
ModelDatabaseCall ==
    /\ pc = "loop"
    /\ stack = <<>>
    /\ i <= Len(get_tables)
    /\ IsRoot(get_tables[i])
    /\ stack' = <<EnterCpa(get_tables[i], None)>>
    /\ table_sizes' = RecordSize(get_tables[i])
    /\ log' = log \o <<Event("call", get_tables[i], None, 0, 0, NoDF),
                      Event("size", get_tables[i], None,
                            NRows(ResolveTable(get_tables[i])), 0, NoDF)>>
    /\ UNCHANGED <<metadata, model_kwargs, tables, models, pc, i, instances>>

\* Lines 137-138, a table with a parent: nothing is done for it.
ModelDatabaseSkip ==
    /\ pc = "loop"
    /\ stack = <<>>
    /\ i <= Len(get_tables)
    /\ ~IsRoot(get_tables[i])
    /\ i' = i + 1
    /\ UNCHANGED <<metadata, model_kwargs, tables, models, table_sizes, stack,
                   pc, instances, log>>

\* Line 141
ModelDatabaseDone ==
    /\ pc = "loop"
    /\ stack = <<>>
    /\ i > Len(get_tables)
    /\ pc' = "done"
    /\ UNCHANGED <<metadata, model_kwargs, tables, models, table_sizes, stack,
                   i, instances, log>>

-----------------------------------------------------------------------------
(* The runs: one Modeler, one model_database call, over every scenario.    *)

Scenario(schema, params, given) ==
    [schema |-> schema, params |-> params, given |-> given]

Scenarios ==
    { Scenario(Chain, <<"m">>, TRUE),
      Scenario(Fan, <<"m", "child_rows">>, FALSE),
      Scenario(Nested, <<"a", "a__a">>, TRUE) }

\* The foreign keys of a table's rows; a root has none, only a row count,
\* and a root without primary key is a table of one row.
KeysOf(schema, t) ==
    IF schema.parent[t] # None THEN SeqsUpTo(KeySet, MaxRows)
    ELSE IF schema.primary_key[t] = None THEN {<<1>>}
    ELSE {[j \in 1..n |-> 1] : n \in 0..MaxRows}

\* Every choice of keys for the tables `names` of a schema.
RECURSIVE KeyChoices(_, _)
KeyChoices(schema, names) ==
    IF names = <<>> THEN {<<>>}
    ELSE {(Head(names) :> keys) @@ rest :
             keys \in KeysOf(schema, Head(names)),
             rest \in KeyChoices(schema, Tail(names))}

Init ==
    \E sc \in Scenarios :
      \E keys \in KeyChoices(sc.schema, sc.schema.tables) :
        /\ LET data == [t \in Range(sc.schema.tables) |->
                           RawTable(sc.schema, t, keys[t])]
               stale == [t \in Range(sc.schema.tables) |->
                           RawTable(sc.schema, t, <<1>>)]
           IN  /\ metadata = [tables |-> sc.schema.tables,
                              parent |-> sc.schema.parent,
                              children |-> sc.schema.children,
                              primary_key |-> sc.schema.primary_key,
                              data |-> IF sc.given THEN stale ELSE data]
               /\ tables = IF sc.given THEN data ELSE <<>>
        /\ model_kwargs = [params |-> sc.params]
        /\ models = <<>>
        /\ table_sizes = <<>>
        /\ stack = <<>>
        /\ pc = "loop"
        /\ i = 1
        /\ instances = 0
        /\ log = <<>>

Next ==
    \/ ModelDatabaseCall
    \/ ModelDatabaseSkip
    \/ ModelDatabaseDone
    \/ CpaRecurse
    \/ CpaExtend
    \/ CpaExtendRaise
    \/ CpaFit
    \/ CpaFitRaise

Spec == Init /\ [][Next]_vars

-----------------------------------------------------------------------------
(* Vocabulary of the properties.                                           *)

Tables == Range(get_tables)

\* The raw data of a table: the argument's when tables were passed, the
\* loaded one otherwise.
Raw(t) == IF tables = <<>> THEN metadata.data[t] ELSE tables[t]

Events(ev) == {k \in 1..Len(log) : log[k].ev = ev}

EventsOf(ev, t) == {k \in Events(ev) : log[k].table = t}

Children(t) == Range(metadata.children[t])

RECURSIVE Ancestors(_)
Ancestors(t) ==
    IF metadata.parent[t] = None THEN {}
    ELSE {metadata.parent[t]} \cup Ancestors(metadata.parent[t])

RECURSIVE Subtree(_)
Subtree(t) == {t} \cup UNION {Subtree(c) : c \in Children(t)}

Reachable == UNION {Subtree(t) : t \in {r \in Tables : metadata.parent[r] = None}}

RECURSIVE PostOrder(_)
PostOrder(t) ==
    Flatten([k \in 1..Len(metadata.children[t]) |->
                PostOrder(metadata.children[t][k])]) \o <<t>>

ForestPostOrder ==
    Flatten([k \in 1..Len(get_tables) |->
                IF metadata.parent[get_tables[k]] = None
                THEN PostOrder(get_tables[k]) ELSE <<>>])

FitOrder ==
    LET fits == SelectSeq(log, LAMBDA e : e.ev = "fit")
    IN  [k \in 1..Len(fits) |-> fits[k].table]

IsPrefix(a, b) == Len(a) <= Len(b) /\ SubSeq(b, 1, Len(a)) = a

\* The rows of child table c that reference the parent key value v.
Referencing(parent, c, v) ==
    {j \in 1..NRows(Raw(c)) : Raw(c).rows[j][parent \o "_id"] = v}

FirstAt(s, v) == CHOOSE j \in 1..Len(s) : s[j] = v /\ \A m \in 1..(j - 1) : s[m] # v

-----------------------------------------------------------------------------
(* C1: the full-table model of T is fitted and stored in models[T] only    *)
(* after, for every child C of T, cpa(C) has returned with models[C]       *)
(* stored and C's extension has been merged into T; the models entries are *)
(* written in post-order of the dependency tree.                           *)
PostOrderFit ==
    /\ IsPrefix(FitOrder, ForestPostOrder)
    /\ \A k \in Events("fit") :
          /\ log[k].table \in DOMAIN models
          /\ \A c \in Children(log[k].table) :
                \E e \in 1..(k - 1) :
                   /\ log[e].ev = "extend" /\ log[e].table = log[k].table
                   /\ log[e].other = c
                   /\ \E r \in 1..(e - 1) :
                         /\ log[r].ev = "return" /\ log[r].table = c
                         /\ \E f \in 1..(r - 1) :
                               log[f].ev = "fit" /\ log[f].table = c

PostOrderFitWitness ==
    /\ pc = "done"
    /\ FitOrder = <<"items", "orders", "customers">>

\* C2: model_database calls cpa itself only on tables without a parent;
\* when it completes, every table that is a root or a descendant of a root
\* has been fitted exactly once and has its models entry; no table is
\* fitted before all its children are.
RootOnlyOrchestration ==
    /\ \A k \in Events("call") :
          log[k].other = None => metadata.parent[log[k].table] = None
    /\ \A t \in Tables : Cardinality(EventsOf("fit", t)) <= 1
    /\ pc = "done" =>
          /\ DOMAIN models = Reachable
          /\ \A t \in Reachable : Cardinality(EventsOf("fit", t)) = 1
    /\ \A k \in Events("fit") :
          \A c \in Children(log[k].table) :
             \E f \in 1..(k - 1) : log[f].ev = "fit" /\ log[f].table = c

RootOnlyOrchestrationWitness ==
    /\ pc = "done"
    /\ DOMAIN models = {"a", "p", "b", "r"}
    /\ Cardinality({k \in Events("call") : log[k].other = None}) = 2

\* C3: for a table with primary key P, the table cpa returns has as many
\* rows as the raw table and has column P and, for each child C, the column
\* __C__child_rows and a column __C__<param> for every parameter of the
\* model.
ReturnedShape ==
    \A k \in Events("return") :
       LET t == log[k].table
           df == log[k].df
       IN  metadata.primary_key[t] # None =>
              /\ NRows(df) = NRows(Raw(t))
              /\ metadata.primary_key[t] \in Range(df.cols)
              /\ \A c \in Children(t) :
                    /\ "__" \o c \o "__child_rows" \in Range(df.cols)
                    /\ \A param \in Range(model_kwargs.params) :
                          "__" \o c \o "__" \o param \in Range(df.cols)

\* C4: in the table cpa returns for a parent, a row whose primary key no
\* row of child C references has __C__child_rows = 0 and every other
\* column of C's extension missing; a row that is referenced carries the
\* extension's values unchanged.
ChildlessRows ==
    \A k \in Events("return") : \A e \in EventsOf("extend", log[k].table) :
       LET t == log[k].table
           df == log[k].df
           c == log[e].other
           ext == log[e].df
           count == "__" \o c \o "__child_rows"
           shared == Range(ext.cols) \cap Range(df.cols)
       IN  \A j \in 1..NRows(df) :
              LET key == df.rows[j][metadata.primary_key[t]]
              IN  IF Referencing(t, c, key) = {}
                  THEN /\ count \in Range(df.cols) => df.rows[j][count] = 0
                       /\ \A col \in shared \ {count} : df.rows[j][col] = NaN
                  ELSE \E m \in 1..NRows(ext) :
                          /\ ext.index[m] = key
                          /\ \A col \in shared :
                                df.rows[j][col] = ext.rows[m][col]

ChildlessRowsWitness ==
    \E k \in Events("return") :
       /\ log[k].table = "customers"
       /\ \E j \in 1..NRows(log[k].df) :
             /\ Referencing("customers", "orders", log[k].df.rows[j]["id"]) = {}
             /\ log[k].df.rows[j]["__orders__child_rows"] = 0
             /\ log[k].df.rows[j]["__orders__m"] = NaN
       /\ \E j \in 1..NRows(log[k].df) :
             log[k].df.rows[j]["__orders__child_rows"] = 2

\* C5: in the table cpa returns for a parent with child C, the value of
\* __C__child_rows in the row of primary key p is the number of rows of the
\* raw child table whose foreign key is p.
ChildRowsCount ==
    \A k \in Events("return") : \A c \in Children(log[k].table) :
       LET t == log[k].table
           df == log[k].df
           count == "__" \o c \o "__child_rows"
       IN  count \in Range(df.cols) =>
              \A j \in 1..NRows(df) :
                 df.rows[j][count] =
                    Cardinality(Referencing(t, c, df.rows[j][metadata.primary_key[t]]))

ChildRowsCountWitness ==
    \E k \in Events("return") :
       /\ log[k].table = "customers"
       /\ NRows(log[k].df) = 2
       /\ Column(Raw("orders"), "customers_id") = <<1, 1>>
       /\ \E j \in 1..2 :
             /\ log[k].df.rows[j]["id"] = 1
             /\ log[k].df.rows[j]["__orders__child_rows"] = 2
       /\ \E j \in 1..2 :
             /\ log[k].df.rows[j]["id"] = 2
             /\ log[k].df.rows[j]["__orders__child_rows"] = 0

\* C6: the extension built for a child table has exactly one row per
\* distinct foreign-key value of the child table, labelled by those values
\* in order of first occurrence.
ExtensionIndex ==
    \A e \in Events("extend") :
       LET ext == log[e].df
           fks == Column(Raw(log[e].other), log[e].table \o "_id")
       IN  /\ NRows(ext) = Cardinality(Range(fks))
           /\ Len(ext.rows) = NRows(ext)
           /\ Range(ext.index) = Range(fks)
           /\ \A a, b \in 1..NRows(ext) :
                 a < b => FirstAt(fks, ext.index[a]) < FirstAt(fks, ext.index[b])

ExtensionIndexWitness ==
    \E e \in Events("extend") :
       /\ log[e].df.index = <<2, 1>>
       /\ Column(Raw(log[e].other), log[e].table \o "_id") = <<2, 1, 2>>

\* C7: every sub-model is a new instance, fitted on exactly the child rows
\* whose foreign key is one parent value: all of them, none of another
\* parent, without the child's primary key column.
SubModelPartition ==
    \A s \in Events("subfit") :
       LET c == log[s].table
           df == log[s].df
           mine == Referencing(log[s].other, c, log[s].key)
       IN  /\ mine # {}
           /\ NRows(df) = Cardinality(mine)
           /\ {df.rows[n]["x"] : n \in 1..NRows(df)}
                 = {Raw(c).rows[j]["x"] : j \in mine}
           /\ \A n \in 1..NRows(df) : df.index[n] = log[s].key
           /\ metadata.primary_key[c] \notin Range(df.cols)
           /\ \A k \in (Events("subfit") \cup Events("fit")) \ {s} :
                 log[k].inst # log[s].inst

SubModelPartitionWitness ==
    \E s \in Events("subfit") :
       /\ metadata.primary_key[log[s].table] = "id"
       /\ log[s].key = 1
       /\ Column(Raw(log[s].table), log[s].other \o "_id") = <<1, 2, 1>>
       /\ Column(log[s].df, "x") = <<1, 3>>

\* C8: a failing fit leaves the whole run at once: nothing happens after
\* it, no models entry exists for the table whose call failed or for its
\* ancestors, and every entry written before stays as written.
FitFailurePropagates ==
    \A k \in Events("raise") :
       /\ k = Len(log)
       /\ pc = "raised"
       /\ stack = <<>>
       /\ \A t \in {log[k].table} \cup Ancestors(log[k].table) :
             t \notin DOMAIN models
       /\ \A f \in Events("fit") :
             /\ log[f].table \in DOMAIN models
             /\ models[log[f].table].inst = log[f].inst
             /\ models[log[f].table].data = log[f].df
       /\ DOMAIN models = {log[f].table : f \in Events("fit")}

FitFailurePropagatesWitness ==
    /\ pc = "raised"
    /\ Last(log).table = "orders"
    /\ DOMAIN models = {"items"}
    /\ log[Len(log) - 1].ev = "extend"

\* C9: an entry of table_sizes is the row count of the table's raw data,
\* and it is written exactly once for every table cpa is called on, root
\* or child.
TableSizes ==
    /\ \A t \in DOMAIN table_sizes : table_sizes[t] = NRows(Raw(t))
    /\ \A t \in Tables :
          /\ Cardinality(EventsOf("size", t)) = Cardinality(EventsOf("call", t))
          /\ Cardinality(EventsOf("size", t)) <= 1
          /\ t \in DOMAIN table_sizes <=> EventsOf("size", t) # {}
    /\ pc = "done" => DOMAIN table_sizes = Reachable

TableSizesWitness ==
    /\ pc = "done"
    /\ tables # <<>>
    /\ table_sizes = [customers |-> 2, orders |-> 2, items |-> 1]

\* C10: every extension column is named __<child>__<key>, and the
\* extensions of two different children of one parent share no column name.
NamespacedColumns ==
    /\ \A e \in Events("extend") :
          \A col \in Range(log[e].df.cols) :
             \E key \in Range(model_kwargs.params) \cup {"child_rows"} :
                col = "__" \o log[e].other \o "__" \o key
    /\ \A d, e \in Events("extend") :
          (log[d].table = log[e].table /\ log[d].other # log[e].other) =>
             Range(log[d].df.cols) \cap Range(log[e].df.cols) = {}

====
